---- MODULE Spec2Model ----
(***************************************************************************)
(* LogTrack: the POST /api/analyze pipeline of logtrack-nextjs.            *)
(*   raw text -> parseLogUniversal -> LogEntry[] -> analyzeLog -> Anomaly[] *)
(* A log text is a sequence of lines; a URL is a sequence of one-character *)
(* strings, so that the regular expressions of Rule 4 are computed on the  *)
(* characters.  Real numbers are exact fractions n/d (Math.round is        *)
(* RoundDiv); dates are milliseconds since the start of the log's month.    *)
(***************************************************************************)
EXTENDS Integers, Sequences, FiniteSets, TLC

VARIABLES pc, fileContent, fileName, userId, apiKey, now, format, reply,
          entries, anomalies, dbError, response,
          prior,
          apc, callerList, listAtCall, statistics, ruleOut, order, ranked,
          page, loaded, arrival, sessionStorage, reader, shown

\* the locals of one POST request and the clock it reads
routeVars == <<pc, fileContent, fileName, userId, apiKey, now, format, reply,
               entries, anomalies, dbError, response>>

\* one call of analyzeLog: its position, the array the caller passed and the
\* copy of it taken at the call, the statistics object, the output of each
\* rule, the order the rules were evaluated in, and the returned list
ruleVars == <<apc, callerList, listAtCall, statistics, ruleOut, order, ranked>>

\* one tab of the legacy browser client: the page it is on, whether that
\* page's DOMContentLoaded listeners have run, how the tab came to the page,
\* the session storage, the file a FileReader is reading, and what the
\* results page has rendered
clientVars == <<page, loaded, arrival, sessionStorage, reader, shown>>

\* what no step of the route handler writes
beyondRoute == <<prior, ruleVars, clientVars>>

\* what no step of a call of analyzeLog writes
beyondRules == <<routeVars, prior, clientVars>>

\* what no step of the legacy browser client writes
beyondClient == <<routeVars, prior, ruleVars>>

vars == <<routeVars, prior, ruleVars, clientVars>>

(***************************************************************************)
(* Bounds of the model.                                                    *)
(***************************************************************************)
\* background sources (one request each) in a volume workload
MaxBackground == 11
\* seconds between two consecutive requests of a burst: 0..MaxStep
MaxStep == 2
\* hours of the day an off-hours workload is placed in: 0..MaxHour
MaxHour == 6
\* distinct sensitive paths requested by one scanning source: 1..MaxScan
MaxScan == 6
\* lines of a short text: 1..MaxLines
MaxLines == 3
\* items of an array the external service answers with: 0..MaxItems
MaxItems == 2

(***************************************************************************)
(* Arithmetic helpers.                                                     *)
(***************************************************************************)
Min(a, b) == IF a <= b THEN a ELSE b

\* Math.round(n/d) for n >= 0, d > 0: floor(n/d + 1/2)
RoundDiv(n, d) == (2 * n + d) \div (2 * d)

\* Math.round(Math.min(cap, n/d))
RoundMin(cap, n, d) == IF n >= cap * d THEN cap ELSE RoundDiv(n, d)

(***************************************************************************)
(* Sequence helpers.  A JavaScript object used as a map is a record        *)
(* [keys, val]: the keys in insertion order (no key of the model is        *)
(* integer-like, so Object.entries follows insertion) and their values.    *)
(***************************************************************************)
\* the items of a sequence with their positions (1-based)
Indexed(s) == [i \in 1..Len(s) |-> [item |-> s[i], index |-> i]]

\* 1, 2, ..., n
Range(n) == [i \in 1..n |-> i]

\* [...new Set(seq)]: distinct elements in order of first occurrence
Unique(s) ==
    LET first == SelectSeq(Indexed(s), LAMBDA x : \A j \in 1..(x.index - 1) : s[j] # x.item)
    IN  [k \in 1..Len(first) |-> first[k].item]

\* Array.prototype.slice(0, n)
Slice0(s, n) == SubSeq(s, 1, Min(n, Len(s)))

(***************************************************************************)
(* Characters and URLs.                                                    *)
(***************************************************************************)
UpperToLower ==
    [c \in {"A","B","C","D","E","F","G","H","I","J","K","L","M",
            "N","O","P","Q","R","S","T","U","V","W","X","Y","Z"} |->
        CASE c = "A" -> "a" [] c = "B" -> "b" [] c = "C" -> "c" [] c = "D" -> "d"
          [] c = "E" -> "e" [] c = "F" -> "f" [] c = "G" -> "g" [] c = "H" -> "h"
          [] c = "I" -> "i" [] c = "J" -> "j" [] c = "K" -> "k" [] c = "L" -> "l"
          [] c = "M" -> "m" [] c = "N" -> "n" [] c = "O" -> "o" [] c = "P" -> "p"
          [] c = "Q" -> "q" [] c = "R" -> "r" [] c = "S" -> "s" [] c = "T" -> "t"
          [] c = "U" -> "u" [] c = "V" -> "v" [] c = "W" -> "w" [] c = "X" -> "x"
          [] c = "Y" -> "y" [] c = "Z" -> "z"]

ToLower(c) == IF c \in DOMAIN UpperToLower THEN UpperToLower[c] ELSE c

\* s occurs in url at some position, letters compared without case
ContainsCI(url, s) ==
    \E i \in 1..(Len(url) - Len(s) + 1) :
        \A j \in 1..Len(s) : ToLower(url[i + j - 1]) = ToLower(s[j])

\* url ends with s, letters compared without case
EndsWithCI(url, s) ==
    /\ Len(url) >= Len(s)
    /\ \A j \in 1..Len(s) : ToLower(url[Len(url) - Len(s) + j]) = ToLower(s[j])

(***************************************************************************)
(* lib/parser.ts                                                           *)
(* A line of the text is a record; its kind says what the line looks like: *)
(*   blank        whitespace only                                          *)
(*   garbage      free text that matches no pattern and holds no marker    *)
(*   apache       a combined-log line, with its captured fields            *)
(*   apachebrace  a combined-log line whose user agent holds {"            *)
(*   apachedash   a combined-log line whose request is "-": it matches the *)
(*                pattern of detectLogFormat, not that of parseApacheNginx *)
(*   json         a JSON object on one line (it starts with {")            *)
(*   jsonbad      a line that starts with { and is not JSON (no {" in it)  *)
(*   fields       a '#Fields:' line with its column names                  *)
(*   software     a '#Software:' line                                      *)
(*   comment      any other line that starts with '#'                      *)
(*   w3cdata      whitespace-separated tokens                              *)
(*   syslog       'Mon DD HH:MM:SS host message'                           *)
(* The time value of an Invalid Date, the hour read from one, and the      *)
(* number parseInt makes of a text with no leading digit are NaN.  The      *)
(* clock (new Date()) reads `now' during one request.                      *)
(***************************************************************************)
NaN == -1

IsBlank(line) == line.kind = "blank"

\* the combined-log pattern of parseApacheNginx
MatchesApache(line) == line.kind \in {"apache", "apachebrace"}

\* apachePattern of detectLogFormat: any quoted request
MatchesApacheSample(line) == line.kind \in {"apache", "apachebrace", "apachedash"}

\* syslogPattern of detectLogFormat and the pattern of parseSyslog
MatchesSyslog(line) == line.kind = "syslog"

\* line.includes('{"')
IncludesBraceQuote(line) == line.kind \in {"json", "apachebrace"}

\* line.trim().startsWith('{')
StartsWithBrace(line) == line.kind \in {"json", "jsonbad"}

\* line.includes('#Fields:'), line.includes('#Software:')
IncludesFields(line) == line.kind = "fields"

IncludesSoftware(line) == line.kind = "software"

\* the date and time texts a W3C column can hold, as their components
W3CDates == [d \in {"2024-10-16"} |-> [year |-> 2024, month |-> 10, day |-> 16]]

W3CTimes ==
    [t \in {"03:15:00", "14:05:09"} |->
        IF t = "03:15:00" THEN [hh |-> 3, mm |-> 15, ss |-> 0]
        ELSE [hh |-> 14, mm |-> 5, ss |-> 9]]

\* line.includes('W3SVC')
IncludesW3SVC(line) ==
    line.kind = "w3cdata" /\ \E i \in 1..Len(line.values) : line.values[i] = "W3SVC1"

\* the line begins with YYYY-MM-DD HH:MM:SS
StartsWithDateTime(line) ==
    /\ line.kind = "w3cdata"
    /\ Len(line.values) >= 2
    /\ line.values[1] \in DOMAIN W3CDates
    /\ line.values[2] \in DOMAIN W3CTimes

\* logContent.trim() === ''
TrimIsEmpty(text) == \A i \in 1..Len(text) : IsBlank(text[i])

\* !fileContent: the empty string is the text with no line at all
IsEmptyString(text) == Len(text) = 0

Months ==
    [m \in {"Jan","Feb","Mar","Apr","May","Jun","Jul","Aug","Sep","Oct","Nov","Dec"} |->
        CASE m = "Jan" -> 0 [] m = "Feb" -> 1 [] m = "Mar" -> 2 [] m = "Apr" -> 3
          [] m = "May" -> 4 [] m = "Jun" -> 5 [] m = "Jul" -> 6 [] m = "Aug" -> 7
          [] m = "Sep" -> 8 [] m = "Oct" -> 9 [] m = "Nov" -> 10 [] m = "Dec" -> 11]

\* new Date(year, month, day, h, m, s).getTime(), in milliseconds since the
\* local midnight that starts the month (every timestamp of a modelled log
\* lies in one month, so only differences and the hour of day are observed)
DateValue(year, month, day, h, m, s) ==
    ((((day - 1) * 24 + h) * 60 + m) * 60 + s) * 1000

\* A reading of the clock, new Date(): its calendar year and its time value
Reading(year, month, day, h, m, s) ==
    [year |-> year, ms |-> DateValue(year, month, day, h, m, s)]

\* Date.prototype.getTime and Date.prototype.getFullYear of a reading
getTime(reading) == reading.ms

getFullYear(reading) == reading.year

\* Date.prototype.getHours
getHours(date) == IF date = NaN THEN NaN ELSE (date \div 3600000) % 24

\* A timestamp with no HH:MM:SS throws and the catch block returns the
\* clock; a month name that is not in the table makes months[monthStr]
\* undefined, and new Date(year, undefined, ...) is an Invalid Date.
parseApacheTimestamp(ts) ==
    IF "hh" \notin DOMAIN ts THEN getTime(now)
    ELSE IF ts.mon \notin DOMAIN Months THEN NaN
    ELSE DateValue(ts.year, Months[ts.mon], ts.day, ts.hh, ts.mm, ts.ss)

\* the entry pushed for a matching line; index is the 0-based forEach index
ApacheEntry(line, index) ==
    LET date == parseApacheTimestamp(line.ts)
    IN  [ip |-> line.ip, timestamp |-> line.ts, method |-> line.method,
         url |-> line.url, statusCode |-> line.status, bytes |-> line.bytes,
         date |-> date, hour |-> getHours(date), lineNumber |-> index + 1]

\* faulty variant: the batch ends at the first line that does not match
parseApacheNginxAbort(logContent) ==
    LET matched == SelectSeq(Indexed(logContent),
                      LAMBDA x : /\ ~IsBlank(x.item) /\ MatchesApache(x.item)
                                 /\ \A j \in 1..x.index :
                                       IsBlank(logContent[j]) \/ MatchesApache(logContent[j]))
    IN  [k \in 1..Len(matched) |-> ApacheEntry(matched[k].item, matched[k].index - 1)]

\* lines.forEach: a blank line returns at once, a matching line pushes its
\* entry, any other line only counts as skipped
parseApacheNginx(logContent) ==
    LET matched == SelectSeq(Indexed(logContent),
                      LAMBDA x : ~IsBlank(x.item) /\ MatchesApache(x.item))
    IN  [k \in 1..Len(matched) |-> ApacheEntry(matched[k].item, matched[k].index - 1)]

\* the lines left by split('\n').filter(l => l.trim())
NonBlankLines(text) == SelectSeq(text, LAMBDA l : ~IsBlank(l))

\* new Date(text) for the timestamp texts of the model: a date and a time
\* are read as local time, the text the clock printed gives the clock back,
\* any other text (and undefined) gives an Invalid Date
DateOfText(ts) ==
    CASE ts.form = "datetime" ->
            DateValue(ts.year, ts.month - 1, ts.day, ts.hh, ts.mm, ts.ss)
      [] ts.form = "now" -> getTime(now)
      [] OTHER -> NaN

\* a || b || ... || fallback over the keys of a parsed object: the value of
\* the first key the object has (the values of the model are truthy, or 0
\* where the fallback is '0')
FirstOf(obj, keys, fallback) ==
    LET present == SelectSeq(keys, LAMBDA k : k \in DOMAIN obj)
    IN  IF Len(present) = 0 THEN fallback ELSE obj[present[1]]

\* faulty variant: date and hour stay at the placeholder new Date()
JsonEntryClockDate(obj, index) ==
    LET timestamp == FirstOf(obj, <<"timestamp", "time", "datetime", "@timestamp">>,
                             [form |-> "now"])
        date == getTime(now)
    IN  [ip |-> FirstOf(obj, <<"ip", "client_ip", "remote_addr", "source_ip">>, "unknown"),
         timestamp |-> timestamp,
         method |-> FirstOf(obj, <<"method", "http_method", "verb">>, "GET"),
         url |-> FirstOf(obj, <<"url", "path", "uri", "request">>, <<"/">>),
         statusCode |-> FirstOf(obj, <<"status", "status_code", "response_code">>, 200),
         bytes |-> FirstOf(obj, <<"bytes", "size", "bytes_sent">>, 0),
         date |-> date, hour |-> getHours(date), lineNumber |-> index + 1]

\* the entry built from a parsed object; index is the 0-based index among
\* the non-blank lines
JsonEntry(obj, index) ==
    LET timestamp == FirstOf(obj, <<"timestamp", "time", "datetime", "@timestamp">>,
                             [form |-> "now"])
        date == DateOfText(timestamp)
    IN  [ip |-> FirstOf(obj, <<"ip", "client_ip", "remote_addr", "source_ip">>, "unknown"),
         timestamp |-> timestamp,
         method |-> FirstOf(obj, <<"method", "http_method", "verb">>, "GET"),
         url |-> FirstOf(obj, <<"url", "path", "uri", "request">>, <<"/">>),
         statusCode |-> FirstOf(obj, <<"status", "status_code", "response_code">>, 200),
         bytes |-> FirstOf(obj, <<"bytes", "size", "bytes_sent">>, 0),
         date |-> date, hour |-> getHours(date), lineNumber |-> index + 1]

\* JSON.parse succeeds on the json lines only; any other line is caught
parseJsonLogs(logContent) ==
    LET parsed == SelectSeq(Indexed(NonBlankLines(logContent)),
                     LAMBDA x : x.item.kind = "json")
    IN  [k \in 1..Len(parsed) |-> JsonEntry(parsed[k].item.obj, parsed[k].index - 1)]

\* parseInt of a token
ParseIntTable ==
    [t \in {"0", "200", "404", "2048"} |->
        CASE t = "0" -> 0 [] t = "200" -> 200 [] t = "404" -> 404 [] t = "2048" -> 2048]

ParseInt(t) == IF t \in DOMAIN ParseIntTable THEN ParseIntTable[t] ELSE NaN

\* the characters of a token that is a URL; a token with no '/' in it is
\* kept as one symbol (no pattern of Rule 4 can match it)
TokenChars ==
    [t \in {"/", "/admin", "/index.html"} |->
        CASE t = "/" -> <<"/">>
          [] t = "/admin" -> <<"/","a","d","m","i","n">>
          [] t = "/index.html" -> <<"/","i","n","d","e","x",".","h","t","m","l">>]

Chars(t) == IF t \in DOMAIN TokenChars THEN TokenChars[t] ELSE <<t>>

\* a || b for two strings
OrElse(a, b) == IF a # "" THEN a ELSE b

\* faulty variant: only the first '#Fields:' line sets the names
ActiveFieldsFirst(logContent, i) ==
    LET above == {j \in 1..(i - 1) : logContent[j].kind = "fields"}
    IN  IF above = {} THEN <<>>
        ELSE logContent[CHOOSE j \in above : \A k \in above : j <= k].names

\* fields: the names of the last '#Fields:' line above the 1-based position
\* i, none when there is no such line
ActiveFields(logContent, i) ==
    LET above == {j \in 1..(i - 1) : logContent[j].kind = "fields"}
    IN  IF above = {} THEN <<>>
        ELSE logContent[CHOOSE j \in above : \A k \in above : k <= j].names

\* entry[name] after fields.forEach((field, i) => entry[field] = values[i] || ''):
\* undefined for a name that is no field, '' for a field with no token
Column(fields, values, name) ==
    LET at == {p \in 1..Len(fields) : fields[p] = name}
        p == CHOOSE q \in at : \A r \in at : r <= q
    IN  IF at = {} THEN "undefined"
        ELSE IF p <= Len(values) THEN values[p] ELSE ""

\* entry[name] || fallback
ColumnOr(fields, values, name, fallback) ==
    LET at == {p \in 1..Len(fields) : fields[p] = name}
    IN  IF at = {} THEN fallback ELSE OrElse(Column(fields, values, name), fallback)

\* new Date(`${entry.date} ${entry.time}`)
W3CDate(d, t) ==
    IF d \in DOMAIN W3CDates /\ t \in DOMAIN W3CTimes
    THEN DateValue(W3CDates[d].year, W3CDates[d].month - 1, W3CDates[d].day,
                   W3CTimes[t].hh, W3CTimes[t].mm, W3CTimes[t].ss)
    ELSE NaN

W3CEntry(fields, values, index) ==
    LET d == Column(fields, values, "date")
        t == Column(fields, values, "time")
        date == W3CDate(d, t)
    IN  [ip |-> OrElse(ColumnOr(fields, values, "c-ip", ""),
                       ColumnOr(fields, values, "s-ip", "unknown")),
         timestamp |-> [form |-> "w3c", date |-> d, time |-> t],
         method |-> ColumnOr(fields, values, "cs-method", "GET"),
         url |-> Chars(ColumnOr(fields, values, "cs-uri-stem", "/")),
         statusCode |-> ParseInt(ColumnOr(fields, values, "sc-status", "200")),
         bytes |-> ParseInt(ColumnOr(fields, values, "sc-bytes", "0")),
         date |-> date, hour |-> getHours(date), lineNumber |-> index + 1]

\* faulty variant: a data line above the first '#Fields:' line is skipped
parseW3CAfterFields(logContent) ==
    LET data == SelectSeq(Indexed(logContent),
                   LAMBDA x : /\ x.item.kind \notin {"fields", "software", "comment", "blank"}
                              /\ ActiveFields(logContent, x.index) # <<>>)
    IN  [k \in 1..Len(data) |->
            W3CEntry(ActiveFields(logContent, data[k].index), data[k].item.values,
                     data[k].index - 1)]

\* lines.forEach: a '#Fields:' line sets fields, any other '#' line and a
\* blank line return, every other line pushes an entry
parseW3C(logContent) ==
    LET data == SelectSeq(Indexed(logContent),
                   LAMBDA x : x.item.kind \notin {"fields", "software", "comment", "blank"})
    IN  [k \in 1..Len(data) |->
            W3CEntry(ActiveFields(logContent, data[k].index), data[k].item.values,
                     data[k].index - 1)]

\* the entry pushed for a line that matches; the year is the clock's, and
\* http holds the method, url and status of an HTTP fragment of the message
SyslogEntry(line, index) ==
    LET date == DateValue(getFullYear(now), Months[line.month], line.day,
                          line.hh, line.mm, line.ss)
        found == Len(line.http) > 0
    IN  [ip |-> line.hostname,
         timestamp |-> [form |-> "syslog", month |-> line.month, day |-> line.day,
                        year |-> getFullYear(now),
                        hh |-> line.hh, mm |-> line.mm, ss |-> line.ss],
         method |-> IF found THEN line.http[1].method ELSE "LOG",
         url |-> IF found THEN line.http[1].url ELSE <<"/">>,
         statusCode |-> IF found THEN line.http[1].status ELSE 200,
         bytes |-> line.messageLength,
         date |-> date, hour |-> getHours(date), lineNumber |-> index + 1]

parseSyslog(logContent) ==
    LET matched == SelectSeq(Indexed(NonBlankLines(logContent)),
                      LAMBDA x : MatchesSyslog(x.item))
    IN  [k \in 1..Len(matched) |-> SyslogEntry(matched[k].item, matched[k].index - 1)]

parseIIS(logContent) == parseW3C(logContent)

\* faulty variant: the Apache check comes before the JSON and W3C checks
detectLogFormatApacheFirst(logContent) ==
    LET lines == NonBlankLines(logContent)
        sampleLines == Slice0(lines, 5)
        any(Test(_)) == \E i \in 1..Len(sampleLines) : Test(sampleLines[i])
    IN  IF Len(lines) = 0 THEN "unknown"
        ELSE IF MatchesApacheSample(lines[1]) THEN "apache"
        ELSE IF StartsWithBrace(sampleLines[1]) \/ any(IncludesBraceQuote) THEN "json"
        ELSE IF any(IncludesFields) \/ any(IncludesSoftware) THEN "w3c"
        ELSE IF MatchesSyslog(lines[1]) THEN "syslog"
        ELSE IF any(IncludesW3SVC) \/ StartsWithDateTime(sampleLines[1]) THEN "iis"
        ELSE "unknown"

\* sampleLines is the first five non-blank lines; the regular expressions
\* with ^ and no m flag look at the first of them only
detectLogFormat(logContent) ==
    LET lines == NonBlankLines(logContent)
        sampleLines == Slice0(lines, 5)
        any(Test(_)) == \E i \in 1..Len(sampleLines) : Test(sampleLines[i])
    IN  IF Len(lines) = 0 THEN "unknown"
        ELSE IF StartsWithBrace(sampleLines[1]) \/ any(IncludesBraceQuote) THEN "json"
        ELSE IF any(IncludesFields) \/ any(IncludesSoftware) THEN "w3c"
        ELSE IF MatchesApacheSample(lines[1]) THEN "apache"
        ELSE IF MatchesSyslog(lines[1]) THEN "syslog"
        ELSE IF any(IncludesW3SVC) \/ StartsWithDateTime(sampleLines[1]) THEN "iis"
        ELSE "unknown"

\* the text goes to the external call: it is not blank, its format is
\* unknown and the request carries an apiKey
NeedsCollaborator(logContent, apiKey_) ==
    /\ ~(IsEmptyString(logContent) \/ TrimIsEmpty(logContent))
    /\ detectLogFormat(logContent) = "unknown"
    /\ apiKey_

\* parseLogUniversal on the paths that make no external call
parseLogUniversal(logContent, apiKey_) ==
    IF IsEmptyString(logContent) \/ TrimIsEmpty(logContent) THEN <<>>
    ELSE LET format_ == detectLogFormat(logContent)
         IN  CASE format_ = "apache" -> parseApacheNginx(logContent)
               [] format_ = "json" -> parseJsonLogs(logContent)
               [] format_ = "w3c" -> parseW3C(logContent)
               [] format_ = "syslog" -> parseSyslog(logContent)
               [] format_ = "iis" -> parseIIS(logContent)
               [] format_ = "unknown" /\ ~apiKey_ -> parseApacheNginx(logContent)

\* lines.slice(0, 20): the non-blank lines that go into the prompt
SampleSize == 20

SampleSent(logContent) == Slice0(NonBlankLines(logContent), SampleSize)

\* the JavaScript value undefined as a property key and as the text a
\* regular expression tests
Undefined == "undefined"

UndefinedChars == <<"u","n","d","e","f","i","n","e","d">>

\* The answer to the fetch of parseWithChatGPT.  kind says how far the
\* answer gets: "network" (fetch rejects), "status" (response.ok is false),
\* "body" (response.json() rejects), "choices" (data.choices[0].message is
\* missing), "syntax" (the content is not JSON), "notarray" (the content is
\* JSON with no map method: an object, a number, null), "array" (the
\* content is a JSON array of items).
ReplyThrows(rep) ==
    \/ rep.kind # "array"
    \/ \E i \in 1..Len(rep.items) : rep.items[i].kind = "null"

\* entry[name] of an item of the answer: a record has the fields it came
\* with, a number has none; a field it has not reads as undefined
OwnField(item, name, undefined) ==
    IF item.kind = "record" /\ name \in DOMAIN item.rec THEN item.rec[name]
    ELSE undefined

\* { ...entry, date: new Date(entry.timestamp), hour: ..., lineNumber: index + 1 }:
\* the spread copies the fields the item has and supplies no default; an
\* undefined timestamp gives an Invalid Date, an undefined number is kept
\* as NaN (every comparison with it is false)
ChatEntry(item, index) ==
    LET timestamp == OwnField(item, "timestamp", [form |-> "undefined"])
        date == DateOfText(timestamp)
    IN  [ip |-> OwnField(item, "ip", Undefined), timestamp |-> timestamp,
         method |-> OwnField(item, "method", Undefined),
         url |-> OwnField(item, "url", UndefinedChars),
         statusCode |-> OwnField(item, "statusCode", NaN),
         bytes |-> OwnField(item, "bytes", NaN),
         date |-> date, hour |-> getHours(date), lineNumber |-> index + 1]

\* the try block maps the items of the answer; the catch block returns
\* parseApacheNginx(logContent)
parseWithChatGPT(logContent, rep) ==
    IF ReplyThrows(rep) THEN parseApacheNginx(logContent)
    ELSE [k \in 1..Len(rep.items) |-> ChatEntry(rep.items[k], k - 1)]

(***************************************************************************)
(* lib/analyzer.ts                                                         *)
(* An anomaly carries the fields its rule sets (explanation and timeRange  *)
(* are string templates over those fields and are left out).               *)
(***************************************************************************)
\* the object a forEach loop fills with one counter per key: the keys in
\* insertion order, each with the number of items that carry it
CountByKey(keysOfItems) ==
    LET keys == Unique(keysOfItems)
    IN  [keys |-> keys,
         val |-> [k \in 1..Len(keys) |->
                    Len(SelectSeq(keysOfItems, LAMBDA x : x = keys[k]))]]

IpsOf(es) == [i \in 1..Len(es) |-> es[i].ip]

\* avgRequestsPerIp is the fraction totalRequests / totalIps (0 with no source)
buildStats(es) ==
    LET ipCounts == CountByKey(IpsOf(es))
    IN  [ipCounts |-> ipCounts,
         ipFailures |-> CountByKey(IpsOf(SelectSeq(es, LAMBDA e : e.statusCode >= 400))),
         hourCounts |-> [h \in 0..23 |-> Len(SelectSeq(es, LAMBDA e : e.hour = h))],
         totalIps |-> Len(ipCounts.keys), totalRequests |-> Len(es)]

\* faulty variant: the request count itself taken as the multiplier
MultiplierNumAbsolute(stats, requestCount) == requestCount * stats.totalRequests

\* multiplier = requestCount / avgRequestsPerIp, as the fraction num / den
MultiplierNum(stats, requestCount) == requestCount * stats.totalIps

MultiplierDen(stats) == stats.totalRequests

\* Rule 1
VolumeSeverity(num, den) == IF num >= 8 * den THEN "critical" ELSE "warning"

\* faulty variant: five points for each multiple of the average
VolumeConfidenceHalved(num, den) == RoundMin(95, 50 * den + 5 * num, den)

VolumeConfidence(num, den) == RoundMin(95, 50 * den + 10 * num, den)

detectHighRequestVolume(stats, es) ==
    LET threshold == 5
        den == MultiplierDen(stats)
        num(k) == MultiplierNum(stats, stats.ipCounts.val[k])
        flagged == SelectSeq(Range(Len(stats.ipCounts.keys)),
                      LAMBDA k : num(k) >= threshold * den)
    IN  [j \in 1..Len(flagged) |->
            LET k == flagged[j]
            IN  [type |-> "High Request Volume", ip |-> stats.ipCounts.keys[k],
                 count |-> stats.ipCounts.val[k],
                 expected |-> RoundDiv(stats.totalRequests, stats.totalIps),
                 confidence |-> VolumeConfidence(num(k), den),
                 severity |-> VolumeSeverity(num(k), den)]]

\* Rule 2
\* faulty variant: the threshold taken as exclusive
FailedThresholdOff(count) == count > 5

FailedThreshold(count) == count >= 5

FailedSeverity(count) == IF count >= 10 THEN "critical" ELSE "warning"

\* faulty variant: the confidence without its cap
FailedConfidenceUncapped(count) == 60 + count * 5

FailedConfidence(count) == Min(95, 60 + count * 5)

detectFailedAttempts(stats, es) ==
    LET flagged == SelectSeq(Range(Len(stats.ipFailures.keys)),
                      LAMBDA k : FailedThreshold(stats.ipFailures.val[k]))
    IN  [j \in 1..Len(flagged) |->
            LET ip == stats.ipFailures.keys[flagged[j]]
                count == stats.ipFailures.val[flagged[j]]
                failures == SelectSeq(es, LAMBDA e : e.ip = ip /\ e.statusCode >= 400)
                urls == Slice0(Unique([i \in 1..Len(failures) |-> failures[i].url]), 3)
            IN  [type |-> "Multiple Failed Attempts", ip |-> ip,
                 count |-> count, urls |-> urls,
                 confidence |-> FailedConfidence(count),
                 severity |-> FailedSeverity(count)]]

\* Rule 3
\* variant of js/analyzer.js: count > 50
TimingThresholdLegacy(count) == count > 50

TimingThreshold(count) == count >= 50

TimingConfidence(count, threshold) ==
    RoundMin(90, 50 * threshold + count * 20, threshold)

TimingSeverity(count) == IF count >= 100 THEN "critical" ELSE "warning"

\* for (let hour = offHoursStart; hour <= offHoursEnd; hour++)
detectUnusualTiming(stats, es) ==
    LET offHoursStart == 1
        offHoursEnd == 5
        threshold == 50
        hours == [i \in 1..(offHoursEnd - offHoursStart + 1) |-> offHoursStart + i - 1]
        flagged == SelectSeq(hours, LAMBDA h : TimingThreshold(stats.hourCounts[h]))
    IN  [j \in 1..Len(flagged) |->
            LET hour == flagged[j]
                count == stats.hourCounts[hour]
                ips == Unique(IpsOf(SelectSeq(es, LAMBDA e : e.hour = hour)))
            IN  [type |-> "Unusual Time Activity", hour |-> hour, count |-> count,
                 ip |-> IF Len(ips) = 1 THEN ips[1] ELSE Undefined,
                 confidence |-> TimingConfidence(count, threshold),
                 severity |-> TimingSeverity(count)]]

\* Rule 4: the regular expressions, in the order of the source
suspiciousPatterns ==
    << [kind |-> "contains", text |-> <<"/","a","d","m","i","n">>, name |-> "admin panel"],
       [kind |-> "contains", text |-> <<"/","w","p","-","a","d","m","i","n">>,
        name |-> "WordPress admin"],
       [kind |-> "contains", text |-> <<"/","p","h","p","m","y","a","d","m","i","n">>,
        name |-> "phpMyAdmin"],
       [kind |-> "suffix", text |-> <<".","e","n","v">>, name |-> "environment file"],
       [kind |-> "contains", text |-> <<"/","c","o","n","f","i","g">>, name |-> "config file"],
       [kind |-> "contains", text |-> <<"/","a","p","i","/","i","n","t","e","r","n","a","l">>,
        name |-> "internal API"],
       [kind |-> "contains", text |-> <<"/","b","a","c","k","u","p">>, name |-> "backup file"],
       [kind |-> "contains", text |-> <<"/",".","g","i","t">>, name |-> "git repository"],
       [kind |-> "contains", text |-> <<"/","d","a","t","a","b","a","s","e">>,
        name |-> "database file"] >>

\* pattern.test(url) for a pattern of the list (all carry the i flag)
PatternTest(p, url) ==
    IF p.kind = "suffix" THEN EndsWithCI(url, p.text) ELSE ContainsCI(url, p.text)

\* entries.forEach x for (pattern of suspiciousPatterns): the (entry, pattern)
\* pairs whose test succeeds, in the order the loops visit them
SuspiciousHits(es) ==
    LET np == Len(suspiciousPatterns)
        pairs == [m \in 1..(Len(es) * np) |->
                    [entry |-> es[((m - 1) \div np) + 1],
                     pattern |-> suspiciousPatterns[((m - 1) % np) + 1]]]
    IN  SelectSeq(pairs, LAMBDA h : PatternTest(h.pattern, h.entry.url))

\* suspiciousAccess: per ip, in insertion order, the urls and names pushed
SuspiciousAccess(es) ==
    LET hits == SuspiciousHits(es)
        keys == Unique([i \in 1..Len(hits) |-> hits[i].entry.ip])
    IN  [keys |-> keys,
         val |-> [k \in 1..Len(keys) |->
                    LET mine == SelectSeq(hits, LAMBDA h : h.entry.ip = keys[k])
                    IN  [urls |-> [i \in 1..Len(mine) |-> mine[i].entry.url],
                         patterns |-> [i \in 1..Len(mine) |-> mine[i].pattern.name]]]]

SuspiciousSeverity(nUrls) == IF nUrls >= 3 THEN "critical" ELSE "warning"

SuspiciousConfidence(nUrls) == Min(95, 70 + nUrls * 5)

detectSuspiciousUrls(es) ==
    LET suspiciousAccess == SuspiciousAccess(es)
    IN  [k \in 1..Len(suspiciousAccess.keys) |->
            LET data == suspiciousAccess.val[k]
                uniqueUrls == Unique(data.urls)
                uniquePatterns == Unique(data.patterns)
            IN  [type |-> "Suspicious URL Access", ip |-> suspiciousAccess.keys[k],
                 count |-> Len(data.urls), urls |-> Slice0(uniqueUrls, 5),
                 pattern |-> uniquePatterns,
                 confidence |-> SuspiciousConfidence(Len(uniqueUrls)),
                 severity |-> SuspiciousSeverity(Len(uniqueUrls))]]

\* Rule 5; (bytes / threshold) * 10 is the fraction bytes / (threshold / 10),
\* and mb is kept in hundredths, as toFixed(2) prints it
TransferConfidence(bytes, threshold) ==
    RoundMin(95, 60 * (threshold \div 10) + bytes, threshold \div 10)

TransferSeverity(bytes) == IF bytes > 50000000 THEN "critical" ELSE "warning"

\* faulty variant: the threshold taken as inclusive
IsLargeTransferInclusive(bytes, threshold) == bytes >= threshold

\* if (entry.bytes > threshold)
IsLargeTransfer(bytes, threshold) == bytes > threshold

\* entries.forEach: one anomaly pushed per entry that passes the test
detectLargeTransfers(es) ==
    LET threshold == 10000000
        large == SelectSeq(es, LAMBDA e : IsLargeTransfer(e.bytes, threshold))
    IN  [j \in 1..Len(large) |->
            [type |-> "Large Data Transfer", ip |-> large[j].ip, url |-> large[j].url,
             mb |-> RoundDiv(large[j].bytes, 10000),
             confidence |-> TransferConfidence(large[j].bytes, threshold),
             severity |-> TransferSeverity(large[j].bytes)]]

\* Rule 6: [...entries].sort((a, b) => a.date - b.date); Array.prototype.sort
\* is stable, and so is SortSeq under a strict order.  With an Invalid Date
\* the comparator returns NaN, which sort takes as 0 (no order between the
\* two entries).
SortByDate(es) ==
    SortSeq(es, LAMBDA a, b : a.date # NaN /\ b.date # NaN /\ a.date < b.date)

\* faulty variant: entries.sort(...) sorts the caller's array itself
SortInPlace(es) == [sorted |-> SortByDate(es), entries |-> SortByDate(es)]

\* [...entries].sort(...): the sorted copy, and the caller's array after it
SortedCopy(es) == [sorted |-> SortByDate(es), entries |-> es]

\* byIp: per ip, in insertion order, its entries in sorted order
GroupByIp(sorted) ==
    LET keys == Unique(IpsOf(sorted))
    IN  [keys |-> keys,
         val |-> [k \in 1..Len(keys) |-> SelectSeq(sorted, LAMBDA e : e.ip = keys[k])]]

\* the duration of the window of `threshold' entries that starts at 0-based i
WindowDuration(ipEntries, i, threshold) ==
    ipEntries[i + threshold].date - ipEntries[i + 1].date

\* faulty variant: the time bound taken as exclusive
RapidWindowsExclusive(ipEntries, threshold, timeWindow) ==
    {i \in 0..(Len(ipEntries) - threshold) :
        WindowDuration(ipEntries, i, threshold) < timeWindow}

\* the 0-based window starts at which the loop would report
RapidWindows(ipEntries, threshold, timeWindow) ==
    {i \in 0..(Len(ipEntries) - threshold) :
        WindowDuration(ipEntries, i, threshold) <= timeWindow}

\* faulty variant: the scan goes on and keeps the last window that qualifies
LastWindow(windows) == CHOOSE w \in windows : \A v \in windows : w >= v

\* for (let i = 0; ...) { if (duration <= timeWindow) { ...; break; } }
FirstWindow(windows) == CHOOSE w \in windows : \A v \in windows : w <= v

\* faulty variant: the window holds every entry within timeWindow of its first
WindowEntriesInTime(ipEntries, i, threshold, timeWindow) ==
    SelectSeq(SubSeq(ipEntries, i + 1, Len(ipEntries)),
              LAMBDA e : e.date - ipEntries[i + 1].date <= timeWindow)

\* ipEntries.slice(i, i + threshold)
WindowEntries(ipEntries, i, threshold, timeWindow) ==
    SubSeq(ipEntries, i + 1, i + threshold)

\* seconds is kept in tenths, as toFixed(1) prints it; the loop breaks at the
\* first window that qualifies
detectRapidRequests(es) ==
    LET threshold == 10
        timeWindow == 10000
        byIp == GroupByIp(SortByDate(es))
        flagged == SelectSeq(Range(Len(byIp.keys)),
                      LAMBDA k : /\ ~(Len(byIp.val[k]) < threshold)
                                 /\ RapidWindows(byIp.val[k], threshold, timeWindow) # {})
    IN  [j \in 1..Len(flagged) |->
            LET ipEntries == byIp.val[flagged[j]]
                windows == RapidWindows(ipEntries, threshold, timeWindow)
                i == FirstWindow(windows)
                windowEntries == WindowEntries(ipEntries, i, threshold, timeWindow)
                duration == windowEntries[Len(windowEntries)].date - windowEntries[1].date
                count == Len(windowEntries)
            IN  [type |-> "Rapid Sequential Requests", ip |-> byIp.keys[flagged[j]],
                 count |-> count, seconds |-> RoundDiv(duration, 100),
                 confidence |-> Min(95, 60 + (count - threshold) * 3),
                 severity |-> IF count >= 20 THEN "critical" ELSE "warning"]]

\* the six rule outputs pushed in order, before the sort
RuleOutputs(es) ==
    LET stats == buildStats(es)
    IN  detectHighRequestVolume(stats, es) \o detectFailedAttempts(stats, es)
          \o detectUnusualTiming(stats, es) \o detectSuspiciousUrls(es)
          \o detectLargeTransfers(es) \o detectRapidRequests(es)

\* variant of js/analyzer.js: the comparator without the severity test
CompareByConfidenceOnly(a, b) == b.confidence - a.confidence

\* the comparator of the final sort: negative when a goes first
CompareAnomalies(a, b) ==
    IF a.severity # b.severity
    THEN (IF a.severity = "critical" THEN -1 ELSE 1)
    ELSE b.confidence - a.confidence

\* the rule outputs from last to first
Reverse(s) == [i \in 1..Len(s) |-> s[Len(s) + 1 - i]]

\* faulty variant: a sort that leaves equal anomalies in reverse order
analyzeLogUnstable(es) ==
    IF Len(es) = 0 THEN <<>>
    ELSE SortSeq(Reverse(RuleOutputs(es)), LAMBDA a, b : CompareAnomalies(a, b) < 0)

\* anomalies.sort(comparator): stable
analyzeLog(es) ==
    IF Len(es) = 0 THEN <<>>
    ELSE SortSeq(RuleOutputs(es), LAMBDA a, b : CompareAnomalies(a, b) < 0)

(***************************************************************************)
(* The log texts the requests carry.  A text is a run of background lines  *)
(* (one request from each of bg ordinary sources) followed by bursts: n    *)
(* lines that cycle through the burst's sources and URLs, `step' seconds   *)
(* apart, starting at hh:00:00.                                            *)
(***************************************************************************)
IpTable ==
    << "10.0.0.1", "10.0.0.2",
       "192.168.1.100", "192.168.1.101", "192.168.1.102", "192.168.1.103",
       "192.168.1.104", "192.168.1.105", "192.168.1.106", "192.168.1.107",
       "192.168.1.108", "192.168.1.109", "192.168.1.110", "192.168.1.111",
       "192.168.1.112", "192.168.1.113" >>

IpA == IpTable[1]

IpB == IpTable[2]

UrlRoot == <<"/">>

UrlAdmin == <<"/","a","d","m","i","n">>

UrlAdminUpper == <<"/","A","d","m","i","n">>

UrlAdminConfig == <<"/","a","d","m","i","n","/","c","o","n","f","i","g">>

UrlEnv == <<"/",".","e","n","v">>

UrlEnvQuery == <<"/",".","e","n","v","?","x">>

UrlBackup == <<"/","b","a","c","k","u","p">>

UrlGit == <<"/",".","g","i","t">>

UrlDatabase == <<"/","d","a","t","a","b","a","s","e">>

UrlWpAdmin == <<"/","w","p","-","a","d","m","i","n">>

UrlPhpMyAdmin == <<"/","p","h","p","m","y","a","d","m","i","n">>

UrlConfig == <<"/","c","o","n","f","i","g">>

ScanList ==
    <<UrlAdmin, UrlEnv, UrlBackup, UrlGit, UrlDatabase, UrlWpAdmin, UrlPhpMyAdmin,
      UrlConfig>>

Cycle(seq, i) == seq[((i - 1) % Len(seq)) + 1]

Stamp(hh, offset) ==
    [day |-> 16, mon |-> "Oct", year |-> 2024,
     hh |-> hh, mm |-> offset \div 60, ss |-> offset % 60]

Data(ips, urls, status, bytes, hh, step, n) ==
    [kind |-> "data", ips |-> ips, urls |-> urls, status |-> status,
     bytes |-> bytes, hh |-> hh, step |-> step, n |-> n]

Noise(kind) ==
    [kind |-> kind, ips |-> <<>>, urls |-> <<>>, status |-> 0,
     bytes |-> 0, hh |-> 0, step |-> 0, n |-> 1]

BurstLine(b, i) ==
    IF b.kind = "data"
    THEN [kind |-> "apache", ip |-> Cycle(b.ips, i), ts |-> Stamp(b.hh, (i - 1) * b.step),
          method |-> "GET", url |-> Cycle(b.urls, i), status |-> b.status,
          bytes |-> b.bytes]
    ELSE [kind |-> b.kind]

BurstLines(b) == [i \in 1..b.n |-> BurstLine(b, i)]

BackgroundLines(bg) ==
    [i \in 1..bg |->
        [kind |-> "apache", ip |-> IpTable[2 + i], ts |-> Stamp(10, 60 * i),
         method |-> "GET", url |-> UrlRoot, status |-> 200, bytes |-> 100]]

RECURSIVE BurstsText(_, _)
BurstsText(bursts, k) ==
    IF k > Len(bursts) THEN <<>> ELSE BurstLines(bursts[k]) \o BurstsText(bursts, k + 1)

Text(w) == BackgroundLines(w.bg) \o BurstsText(w.bursts, 1)

FailBursts ==
    {Data(<<ip>>, <<UrlRoot>>, 401, 100, 10, 5, n) : ip \in {IpA, IpB}, n \in {4, 5, 7, 10, 11}}
      \cup {Data(<<IpA>>, <<UrlRoot>>, st, 100, 10, 5, 5) : st \in {399, 400}}

UrlBursts ==
    {Data(<<IpA>>, <<u>>, 200, 100, 10, 5, 1) :
        u \in {UrlAdmin, UrlAdminUpper, UrlAdminConfig, UrlEnv, UrlEnvQuery, UrlBackup}}
      \cup {Data(<<IpB>>, <<u>>, 200, 100, 10, 5, 1) : u \in {UrlAdmin, UrlEnv}}
      \cup {Data(<<IpA>>, <<UrlAdmin>>, 200, 100, 10, 5, 2)}

ScanBursts == {Data(<<IpA>>, SubSeq(ScanList, 1, k), 200, 100, 10, 5, k) : k \in 2..MaxScan}

SizeBursts ==
    {Data(<<IpA>>, <<UrlRoot>>, 200, b, 10, 5, 1) :
        b \in {10000000, 10000001, 20000000, 50000000, 50000001}}
      \cup {Data(<<IpA>>, <<UrlRoot>>, 200, 20000000, 10, 5, 2)}

RapidBursts ==
    {Data(<<IpA>>, <<UrlRoot>>, 200, 100, 10, s, n) : s \in 0..MaxStep, n \in {4, 6, 9, 10, 11}}

NoiseBursts == {Noise("blank"), Noise("garbage")}

SmallBursts ==
    FailBursts \cup UrlBursts \cup ScanBursts \cup SizeBursts \cup RapidBursts
      \cup NoiseBursts

\* zero, one or two small bursts
MixedWorkloads ==
    {[bg |-> 0, bursts |-> <<>>]}
      \cup {[bg |-> 0, bursts |-> <<b>>] : b \in SmallBursts}
      \cup {[bg |-> 0, bursts |-> <<b, c>>] : b \in SmallBursts, c \in SmallBursts}

\* one or two sources busy in one hour of the day
OffHoursWorkloads ==
    {[bg |-> 0, bursts |-> <<Data(ips, <<UrlRoot>>, 200, 100, h, 1, n)>>] :
        ips \in {<<IpA>>, <<IpA, IpB>>}, h \in 0..MaxHour, n \in {49, 50, 51, 100}}

\* ordinary sources with one request each and one heavy source
VolumeWorkloads ==
    {[bg |-> bg, bursts |-> <<Data(<<IpA>>, <<UrlRoot>>, 200, 100, 11, 30, n)>>] :
        bg \in 0..MaxBackground, n \in {1, 5, 15, 22, 50, 100}}

\* one source with 25 requests in 8 seconds, three to the second: three
\* runs of one request a second, which the rule's sort interleaves
DenseWorkloads ==
    {[bg |-> 0,
      bursts |-> <<Data(<<IpA>>, <<UrlRoot>>, 200, 100, 10, 1, 9),
                   Data(<<IpA>>, <<UrlRoot>>, 200, 100, 10, 1, 9),
                   Data(<<IpA>>, <<UrlRoot>>, 200, 100, 10, 1, 7)>>]}

Workloads ==
    MixedWorkloads \cup OffHoursWorkloads \cup VolumeWorkloads \cup DenseWorkloads

(***************************************************************************)
(* Short texts, for the format detector and the extractors: every sequence *)
(* of one to MaxLines lines over the sample lines of one family.  A family *)
(* holds the lines of one format and the lines the detector can confuse    *)
(* with it.  These texts have fewer lines than the window of Rule 6, so an *)
(* Invalid Date never reaches a comparison of instants.                    *)
(***************************************************************************)
Blank == [kind |-> "blank"]

Garbage == [kind |-> "garbage"]

GoodLine ==
    [kind |-> "apache", ip |-> IpA, ts |-> Stamp(10, 0), method |-> "GET",
     url |-> UrlRoot, status |-> 200, bytes |-> 100]

\* [16/Foo/2024:10:00:00 +0000]
BadMonthLine == [GoodLine EXCEPT !.ip = IpB, !.ts.mon = "Foo"]

\* [16/Oct/2024]
NoTimeLine == [GoodLine EXCEPT !.ts = [day |-> 16, mon |-> "Oct", year |-> 2024]]

BraceLine == [GoodLine EXCEPT !.kind = "apachebrace"]

DashLine == [kind |-> "apachedash"]

\* 2024-10-DD HH:MM:SS
DateTime(day, hh, mm, ss) ==
    [form |-> "datetime", year |-> 2024, month |-> 10, day |-> day,
     hh |-> hh, mm |-> mm, ss |-> ss]

JsonFull ==
    [kind |-> "json",
     obj |-> [ip |-> "10.0.0.5", timestamp |-> DateTime(16, 3, 15, 0),
              method |-> "POST", url |-> UrlAdmin, status |-> 404, bytes |-> 512]]

\* other key names, no timestamp key
JsonNoTime ==
    [kind |-> "json", obj |-> [remote_addr |-> "10.0.0.6", path |-> UrlEnv]]

\* a timestamp that is no date
JsonBadTime ==
    [kind |-> "json",
     obj |-> [client_ip |-> "10.0.0.6", time |-> [form |-> "other"], status_code |-> 500]]

JsonBad == [kind |-> "jsonbad"]

FieldsLine ==
    [kind |-> "fields",
     names |-> <<"date", "time", "s-sitename", "c-ip", "cs-method", "cs-uri-stem",
                 "sc-status", "sc-bytes">>]

\* another ordering: a server address column, and size before status
FieldsLineReordered ==
    [kind |-> "fields",
     names |-> <<"date", "time", "s-ip", "c-ip", "cs-method", "cs-uri-stem",
                 "sc-bytes", "sc-status">>]

SoftwareLine == [kind |-> "software"]

CommentLine == [kind |-> "comment"]

DataLine ==
    [kind |-> "w3cdata",
     values |-> <<"2024-10-16", "03:15:00", "W3SVC1", "10.0.0.7", "GET", "/admin",
                  "404", "2048">>]

\* a data line that ends after its time column
ShortDataLine == [kind |-> "w3cdata", values |-> <<"2024-10-16", "14:05:09">>]

SyslogLine ==
    [kind |-> "syslog", month |-> "Oct", day |-> 16, hh |-> 2, mm |-> 30, ss |-> 0,
     hostname |-> "web01", messageLength |-> 24, http |-> <<>>]

SyslogHttpLine ==
    [SyslogLine EXCEPT !.hostname = "web02", !.messageLength = 40,
                       !.http = <<[method |-> "POST", url |-> UrlAdmin, status |-> 401]>>]

ApacheLines == {Blank, Garbage, GoodLine, BadMonthLine, NoTimeLine, DashLine}

JsonLines == {Blank, JsonFull, JsonNoTime, JsonBadTime, JsonBad, GoodLine, BraceLine}

W3CLines ==
    {Blank, FieldsLine, FieldsLineReordered, SoftwareLine, CommentLine, DataLine,
     ShortDataLine}

\* logs whose column ordering changes between two data lines
ReorderedTexts ==
    {<<FieldsLine, DataLine, FieldsLineReordered, DataLine>>,
     <<FieldsLine, ShortDataLine, FieldsLineReordered, DataLine>>,
     <<FieldsLineReordered, DataLine, FieldsLine, ShortDataLine>>,
     <<DataLine, FieldsLineReordered, ShortDataLine, CommentLine, DataLine>>}

SyslogLines == {Blank, Garbage, SyslogLine, SyslogHttpLine}

TextsOver(alphabet) == UNION {[1..n -> alphabet] : n \in 1..MaxLines}

FormatTexts ==
    TextsOver(ApacheLines) \cup TextsOver(JsonLines) \cup TextsOver(W3CLines)
      \cup TextsOver(SyslogLines) \cup ReorderedTexts

\* the clock readings
Clock == {Reading(2024, 9, 20, 14, 30, 0), Reading(2024, 9, 21, 3, 0, 5)}

\* texts of no known format that fill the sample and that exceed it by a line
LongTexts == {[i \in 1..n |-> Garbage] : n \in {SampleSize, SampleSize + 1}}

\* The requests: the workloads come without apiKey; the short texts come
\* with and without one, at either clock reading; the long texts likewise,
\* at one reading.
Requests ==
    {[text |-> Text(w), key |-> FALSE, clock |-> Reading(2024, 9, 20, 14, 30, 0)] :
        w \in Workloads}
      \cup {[text |-> t, key |-> k, clock |-> c] :
                t \in FormatTexts, k \in BOOLEAN, c \in Clock}
      \cup {[text |-> t, key |-> k, clock |-> Reading(2024, 9, 20, 14, 30, 0)] :
                t \in LongTexts, k \in BOOLEAN}

\* The texts analysed more than once: one or two lines of each format, with
\* a timestamp on every line or with a line that falls back to the clock,
\* a text of no known format, and three workloads that raise anomalies.
RepeatTexts ==
    {<<GoodLine>>, <<GoodLine, NoTimeLine>>, <<JsonFull>>, <<JsonFull, JsonNoTime>>,
     <<FieldsLine, DataLine>>, <<SyslogLine, SyslogHttpLine>>, <<Garbage>>}
      \cup {Text([bg |-> 0, bursts |-> <<b>>]) :
                b \in {Data(<<IpA>>, <<UrlRoot>>, 401, 100, 10, 5, 5),
                       Data(<<IpA>>, <<UrlAdmin>>, 200, 20000000, 10, 5, 2),
                       Data(<<IpA>>, <<UrlRoot>>, 200, 100, 10, 1, 10)}}

\* two readings of one year and one of the next
RepeatClock ==
    {Reading(2024, 9, 20, 14, 30, 0), Reading(2024, 9, 21, 3, 0, 5),
     Reading(2025, 0, 1, 0, 0, 30)}

RepeatRequests ==
    {[text |-> t, key |-> k, clock |-> c] :
        t \in RepeatTexts, k \in BOOLEAN, c \in RepeatClock}

\* The answers of the external service: the failures, and the arrays of up
\* to MaxItems items, each a complete record, a record with fields missing,
\* a number or null.
ItemRecord ==
    [kind |-> "record",
     rec |-> [ip |-> "10.0.0.9", timestamp |-> DateTime(16, 4, 0, 0), method |-> "GET",
              url |-> UrlRoot, statusCode |-> 200, bytes |-> 0]]

\* a record with no ip, statusCode or bytes
ItemPartial ==
    [kind |-> "record",
     rec |-> [timestamp |-> DateTime(16, 4, 0, 5), method |-> "GET", url |-> UrlAdmin]]

ItemNumber == [kind |-> "number"]

ItemNull == [kind |-> "null"]

Items == {ItemRecord, ItemPartial, ItemNumber, ItemNull}

NoReply == [kind |-> "none", items |-> <<>>]

\* the answer that does what the prompt asks: one complete record for each
\* line of the sample
RecordPerLine(sample) ==
    [kind |-> "array", items |-> [i \in 1..Len(sample) |-> ItemRecord]]

Replies ==
    {[kind |-> k, items |-> <<>>] :
        k \in {"network", "status", "body", "choices", "syntax", "notarray"}}
      \cup {[kind |-> "array", items |-> s] :
                s \in UNION {[1..n -> Items] : n \in 0..MaxItems}}

(***************************************************************************)
(* app/api/analyze/route.ts: one POST request at a time; the handler's     *)
(* locals (and those of parseLogUniversal, which it awaits) are the        *)
(* variables, pc is its position.                                          *)
(***************************************************************************)
\* no earlier run is on record
NoRun == [text |-> <<>>]

NoData == [status |-> 0, success |-> FALSE, hasData |-> FALSE,
           entries |-> <<>>, anomalies |-> <<>>]

Failure(status) == [NoData EXCEPT !.status = status]

Success(es, as) ==
    [status |-> 200, success |-> TRUE, hasData |-> TRUE, entries |-> es, anomalies |-> as]

\* Storage: the keys present and their values.  getItem of a key that is
\* not present is null, which Has tells apart.
clear == [key \in {} |-> ""]

Has(storage, key) == key \in DOMAIN storage

setItem(storage, key, value) ==
    [k \in DOMAIN storage \cup {key} |-> IF k = key THEN value ELSE storage[k]]

removeItem(storage, key) == [k \in DOMAIN storage \ {key} |-> storage[k]]

\* no FileReader is reading
NoFile == [name |-> ""]

\* the results page has rendered nothing
NotShown == [rendered |-> FALSE]

Init ==
    /\ pc = "idle"
    /\ fileContent = <<>>
    /\ fileName = FALSE
    /\ userId = FALSE
    /\ apiKey = FALSE
    /\ now = Reading(2024, 9, 20, 14, 30, 0)
    /\ format = "none"
    /\ reply = NoReply
    /\ entries = <<>>
    /\ anomalies = <<>>
    /\ dbError = FALSE
    /\ response = NoData
    /\ prior = NoRun
    /\ apc = "idle"
    /\ callerList = <<>>
    /\ listAtCall = <<>>
    /\ statistics = buildStats(<<>>)
    /\ ruleOut = [r \in 1..6 |-> <<>>]
    /\ order = <<>>
    /\ ranked = <<>>
    /\ page = "index.html"
    /\ loaded = FALSE
    /\ arrival = "address"
    /\ sessionStorage = clear
    /\ reader = NoFile
    /\ shown = NotShown

\* const { fileContent, fileName, userId, apiKey } = await request.json()
RequestFrom(requests) ==
    /\ pc = "idle"
    /\ \E r \in requests, fn \in BOOLEAN, uid \in BOOLEAN :
          /\ fileContent' = r.text
          /\ apiKey' = r.key
          /\ now' = r.clock
          /\ fileName' = fn
          /\ userId' = uid
    /\ pc' = "received"
    /\ UNCHANGED <<format, reply, entries, anomalies, dbError, response>>
    /\ UNCHANGED beyondRoute

Request == RequestFrom(Requests)

\* request.json() throws on a body that is not JSON: the catch block
MalformedBody ==
    /\ pc = "idle"
    /\ response' = Failure(500)
    /\ pc' = "done"
    /\ UNCHANGED <<fileContent, fileName, userId, apiKey, now, format, reply,
                   entries, anomalies, dbError>>
    /\ UNCHANGED beyondRoute

MissingFields == IsEmptyString(fileContent) \/ ~fileName \/ ~userId

RejectMissing ==
    /\ pc = "received"
    /\ MissingFields
    /\ response' = Failure(400)
    /\ pc' = "done"
    /\ UNCHANGED <<fileContent, fileName, userId, apiKey, now, format, reply,
                   entries, anomalies, dbError>>
    /\ UNCHANGED beyondRoute

\* parseLogUniversal returns without waiting; format is its local, set once
\* the text is known not to be blank
Parse ==
    /\ pc = "received"
    /\ ~MissingFields
    /\ ~NeedsCollaborator(fileContent, apiKey)
    /\ format' = IF TrimIsEmpty(fileContent) THEN format ELSE detectLogFormat(fileContent)
    /\ entries' = parseLogUniversal(fileContent, apiKey)
    /\ pc' = "parsed"
    /\ UNCHANGED <<fileContent, fileName, userId, apiKey, now, reply,
                   anomalies, dbError, response>>
    /\ UNCHANGED beyondRoute

\* parseWithChatGPT sends the sample and awaits the fetch, with no timeout
\* and no abort signal
CallCollaborator ==
    /\ pc = "received"
    /\ ~MissingFields
    /\ NeedsCollaborator(fileContent, apiKey)
    /\ format' = detectLogFormat(fileContent)
    /\ pc' = "calling"
    /\ UNCHANGED <<fileContent, fileName, userId, apiKey, now, reply,
                   entries, anomalies, dbError, response>>
    /\ UNCHANGED beyondRoute

\* the fetch settles: parseWithChatGPT returns the mapped items, or the
\* Apache entries from its catch block
CollaboratorReplies ==
    /\ pc = "calling"
    /\ \E rep \in Replies \cup {RecordPerLine(SampleSent(fileContent))} :
          /\ reply' = rep
          /\ entries' = parseWithChatGPT(fileContent, rep)
    /\ pc' = "parsed"
    /\ UNCHANGED <<fileContent, fileName, userId, apiKey, now, format,
                   anomalies, dbError, response>>
    /\ UNCHANGED beyondRoute

RejectNoEntries ==
    /\ pc = "parsed"
    /\ Len(entries) = 0
    /\ response' = Failure(400)
    /\ pc' = "done"
    /\ UNCHANGED <<fileContent, fileName, userId, apiKey, now, format, reply,
                   entries, anomalies, dbError>>
    /\ UNCHANGED beyondRoute

Analyze ==
    /\ pc = "parsed"
    /\ Len(entries) # 0
    /\ anomalies' = analyzeLog(entries)
    /\ pc' = "analyzed"
    /\ UNCHANGED <<fileContent, fileName, userId, apiKey, now, format, reply,
                   entries, dbError, response>>
    /\ UNCHANGED beyondRoute

\* the insert into 'analyses' resolves with or without an error
Save ==
    /\ pc = "analyzed"
    /\ \E err \in BOOLEAN : dbError' = err
    /\ pc' = "saved"
    /\ UNCHANGED <<fileContent, fileName, userId, apiKey, now, format, reply,
                   entries, anomalies, response>>
    /\ UNCHANGED beyondRoute

\* faulty variant: a failed save fails the request
RespondUnlessDbError ==
    /\ pc = "saved"
    /\ response' = IF dbError THEN Failure(500) ELSE Success(entries, anomalies)
    /\ pc' = "done"
    /\ UNCHANGED <<fileContent, fileName, userId, apiKey, now, format, reply,
                   entries, anomalies, dbError>>
    /\ UNCHANGED beyondRoute

\* a dbError is logged and the request still succeeds
Respond ==
    /\ pc = "saved"
    /\ response' = Success(entries, anomalies)
    /\ pc' = "done"
    /\ UNCHANGED <<fileContent, fileName, userId, apiKey, now, format, reply,
                   entries, anomalies, dbError>>
    /\ UNCHANGED beyondRoute

\* the handler has returned; the next request starts from fresh locals
Return ==
    /\ pc = "done"
    /\ pc' = "idle"
    /\ fileContent' = <<>>
    /\ fileName' = FALSE
    /\ userId' = FALSE
    /\ apiKey' = FALSE
    /\ now' = Reading(2024, 9, 20, 14, 30, 0)
    /\ format' = "none"
    /\ reply' = NoReply
    /\ entries' = <<>>
    /\ anomalies' = <<>>
    /\ dbError' = FALSE
    /\ response' = NoData
    /\ UNCHANGED beyondRoute

Next ==
    \/ Request
    \/ MalformedBody
    \/ RejectMissing
    \/ Parse
    \/ CallCollaborator
    \/ CollaboratorReplies
    \/ RejectNoEntries
    \/ Analyze
    \/ Save
    \/ Respond
    \/ Return

Spec == Init /\ [][Next]_vars

\* The calls of analyzeLog observed rule by rule: lists of two bursts in
\* either time order and one of three, a list with a heavy source at night
\* among ordinary sources, and the empty list.
RuleBursts ==
    {Data(<<IpB>>, <<UrlRoot>>, 200, 20000000, 11, 5, 1),
     Data(<<IpA>>, <<UrlAdmin>>, 200, 50000001, 9, 5, 1),
     Data(<<IpA>>, <<UrlRoot>>, 401, 100, 8, 1, 10)}

RuleWorkloads ==
    {[bg |-> 0, bursts |-> <<p[1], p[2]>>] :
        p \in {q \in RuleBursts \X RuleBursts : q[1] # q[2]}}
      \cup {[bg |-> 0,
              bursts |-> <<Data(<<IpB>>, <<UrlRoot>>, 200, 20000000, 11, 5, 1),
                           Data(<<IpA>>, <<UrlAdmin>>, 200, 50000001, 9, 5, 1),
                           Data(<<IpA>>, <<UrlRoot>>, 401, 100, 8, 1, 10)>>]}
      \cup {[bg |-> 7, bursts |-> <<Data(<<IpA>>, <<UrlRoot>>, 200, 100, 2, 1, 50)>>]}

SharedLists == {<<>>} \cup {parseApacheNginx(Text(w)) : w \in RuleWorkloads}

\* analyzeLog(entries) is entered
Call ==
    /\ apc = "idle"
    /\ \E es \in SharedLists :
          /\ callerList' = es
          /\ listAtCall' = es
    /\ apc' = "called"
    /\ UNCHANGED <<statistics, ruleOut, order, ranked>>
    /\ UNCHANGED beyondRules

\* if (!entries || entries.length === 0) return []
ReturnEmpty ==
    /\ apc = "called"
    /\ Len(callerList) = 0
    /\ ranked' = <<>>
    /\ apc' = "returned"
    /\ UNCHANGED <<callerList, listAtCall, statistics, ruleOut, order>>
    /\ UNCHANGED beyondRules

\* const statistics = buildStats(entries)
BuildStats ==
    /\ apc = "called"
    /\ Len(callerList) # 0
    /\ statistics' = buildStats(callerList)
    /\ apc' = "rules"
    /\ UNCHANGED <<callerList, listAtCall, ruleOut, order, ranked>>
    /\ UNCHANGED beyondRules

\* rule r is evaluated on the shared list and statistics: it returns
\* `output' and leaves the caller's array as `after'
Evaluate(r, output, after) ==
    /\ apc = "rules"
    /\ \A i \in 1..Len(order) : order[i] # r
    /\ ruleOut' = [ruleOut EXCEPT ![r] = output]
    /\ callerList' = after
    /\ order' = Append(order, r)
    /\ UNCHANGED <<apc, listAtCall, statistics, ranked>>
    /\ UNCHANGED beyondRules

HighRequestVolume == Evaluate(1, detectHighRequestVolume(statistics, callerList), callerList)

FailedAttempts == Evaluate(2, detectFailedAttempts(statistics, callerList), callerList)

UnusualTiming == Evaluate(3, detectUnusualTiming(statistics, callerList), callerList)

SuspiciousUrls == Evaluate(4, detectSuspiciousUrls(callerList), callerList)

LargeTransfers == Evaluate(5, detectLargeTransfers(callerList), callerList)

RapidRequests ==
    Evaluate(6, detectRapidRequests(callerList), SortedCopy(callerList).entries)

\* once all six have completed: the outputs are concatenated in rule order
\* and sorted
Aggregate ==
    /\ apc = "rules"
    /\ Len(order) = 6
    /\ ranked' = SortSeq(ruleOut[1] \o ruleOut[2] \o ruleOut[3] \o ruleOut[4]
                            \o ruleOut[5] \o ruleOut[6],
                         LAMBDA a, b : CompareAnomalies(a, b) < 0)
    /\ apc' = "returned"
    /\ UNCHANGED <<callerList, listAtCall, statistics, ruleOut, order>>
    /\ UNCHANGED beyondRules

\* the caller goes on; the locals of the call are gone
Resume ==
    /\ apc = "returned"
    /\ apc' = "idle"
    /\ callerList' = <<>>
    /\ listAtCall' = <<>>
    /\ statistics' = buildStats(<<>>)
    /\ ruleOut' = [r \in 1..6 |-> <<>>]
    /\ order' = <<>>
    /\ ranked' = <<>>
    /\ UNCHANGED beyondRules

RuleNext ==
    \/ Call
    \/ ReturnEmpty
    \/ BuildStats
    \/ HighRequestVolume
    \/ FailedAttempts
    \/ UnusualTiming
    \/ SuspiciousUrls
    \/ LargeTransfers
    \/ RapidRequests
    \/ Aggregate
    \/ Resume

RuleSpec == Init /\ [][RuleNext]_vars

\* The same handler under observation: the requests carry the texts of
\* RepeatTexts at the readings of RepeatClock, and `prior' keeps the first
\* successful run and whether a run on another text has completed since.
RepeatRequest == RequestFrom(RepeatRequests)

\* the events of this run are the mapped items of an answer
Answered == reply # NoReply /\ ~ReplyThrows(reply)

ObserveFirst ==
    /\ pc = "done"
    /\ response.success
    /\ prior = NoRun
    /\ prior' = [text |-> fileContent, now |-> now, answered |-> Answered,
                 between |-> FALSE,
                 entries |-> response.entries, anomalies |-> response.anomalies]
    /\ UNCHANGED <<routeVars, ruleVars, clientVars>>

ObserveBetween ==
    /\ pc = "done"
    /\ response.success
    /\ prior # NoRun
    /\ prior.text # fileContent
    /\ ~prior.between
    /\ prior' = [prior EXCEPT !.between = TRUE]
    /\ UNCHANGED <<routeVars, ruleVars, clientVars>>

RepeatNext ==
    \/ RepeatRequest
    \/ MalformedBody
    \/ RejectMissing
    \/ Parse
    \/ CallCollaborator
    \/ CollaboratorReplies
    \/ RejectNoEntries
    \/ Analyze
    \/ Save
    \/ Respond
    \/ Return
    \/ ObserveFirst
    \/ ObserveBetween

RepeatSpec == Init /\ [][RepeatNext]_vars

(***************************************************************************)
(* js/auth.js, js/upload.js, js/display.js: the legacy browser client.    *)
(* One tab moves between index.html, upload.html and results.html; each   *)
(* page runs its DOMContentLoaded listeners once after it is reached.     *)
(***************************************************************************)
\* USERS of js/auth.js
USERS == [u \in {"admin", "analyst"} |->
             IF u = "admin" THEN "password123" ELSE "soc2024"]

\* the version the results page expects
DataVersion == "1.0.1"

\* the files a user picks: lines of the combined format, lines that match
\* nothing, blank lines
LegacyFiles ==
    { [name |-> "access.log", text |-> <<GoodLine>>],
      [name |-> "mixed.log", text |-> <<Blank, GoodLine, Garbage, GoodLine>>],
      [name |-> "notes.txt", text |-> <<Garbage>>],
      [name |-> "blank.log", text |-> <<Blank>>] }

\* parseLog of js/parser.js: the same loop as parseApacheNginx, after the
\* guard on empty content
parseLog(logContent) ==
    IF IsEmptyString(logContent) \/ TrimIsEmpty(logContent) THEN <<>>
    ELSE parseApacheNginx(logContent)

\* JSON.stringify of a Date is its ISO text, and null for an Invalid Date
toJSON(date) ==
    IF date = NaN THEN [json |-> "null"] ELSE [json |-> "string", iso |-> date]

\* JSON.stringify(results): every entry's date becomes text
Stringify(results) ==
    [results EXCEPT
        !.parsed = [k \in 1..Len(results.parsed) |->
                       [results.parsed[k] EXCEPT !.date = toJSON(@)]]]

\* if (typeof entry.date === 'string') entry.date = new Date(entry.date)
ReviveDate(entry) ==
    IF entry.date.json = "string" THEN [entry EXCEPT !.date = @.iso] ELSE entry

\* what displaySummary, displayAnomalies and displayEventTable are given
Rendered(resultsJson) ==
    [rendered |-> TRUE,
     parsed |-> [k \in 1..Len(resultsJson.parsed) |-> ReviveDate(resultsJson.parsed[k])],
     anomalies |-> resultsJson.anomalies]

\* the version check at the head of displayResults
VersionCheck(storage) ==
    IF Has(storage, "dataVersion") /\ storage["dataVersion"] = DataVersion
    THEN storage
    ELSE setItem(removeItem(storage, "results"), "dataVersion", DataVersion)

\* checkAuth lets the page stay
LoggedIn(storage) == Has(storage, "loggedIn") /\ Has(storage, "username")

\* window.location.href = target
Navigate(target, how) ==
    /\ page' = target
    /\ loaded' = FALSE
    /\ arrival' = how
    /\ reader' = NoFile
    /\ shown' = NotShown

\* DOMContentLoaded on index.html: the login form gets its listener
LoadIndex ==
    /\ page = "index.html"
    /\ ~loaded
    /\ loaded' = TRUE
    /\ UNCHANGED <<page, arrival, sessionStorage, reader, shown>>
    /\ UNCHANGED beyondClient

\* handleLogin with a user and password of USERS (any other pair only shows
\* an error message)
handleLogin ==
    /\ page = "index.html"
    /\ loaded
    /\ \E username \in DOMAIN USERS :
          sessionStorage' =
              setItem(setItem(setItem(sessionStorage, "loggedIn", "true"),
                              "username", username),
                      "loginTime", "now")
    /\ Navigate("upload.html", "handleLogin")
    /\ UNCHANGED beyondClient

\* DOMContentLoaded on upload.html: checkAuth
LoadUpload ==
    /\ page = "upload.html"
    /\ ~loaded
    /\ IF LoggedIn(sessionStorage)
       THEN /\ loaded' = TRUE
            /\ UNCHANGED <<page, arrival, reader, shown>>
       ELSE Navigate("index.html", "checkAuth")
    /\ UNCHANGED sessionStorage
    /\ UNCHANGED beyondClient

\* processFile with a selected file: reader.readAsText(file)
processFile ==
    /\ page = "upload.html"
    /\ loaded
    /\ reader = NoFile
    /\ \E file \in LegacyFiles : reader' = file
    /\ UNCHANGED <<page, loaded, arrival, sessionStorage, shown>>
    /\ UNCHANGED beyondClient

\* reader.onload.  A file of at most four ordinary requests gives none of
\* the six legacy rules anything to report, so analyzeLog returns [].
onload ==
    /\ page = "upload.html"
    /\ reader # NoFile
    /\ LET parsedEntries == parseLog(reader.text)
           results == [parsed |-> parsedEntries, anomalies |-> <<>>,
                       filename |-> reader.name]
       IN  IF Len(parsedEntries) = 0
           THEN /\ reader' = NoFile
                /\ UNCHANGED <<page, loaded, arrival, sessionStorage, shown>>
           ELSE /\ sessionStorage' =
                       setItem(sessionStorage, "results", Stringify(results))
                /\ Navigate("results.html", "processFile")
    /\ UNCHANGED beyondClient

\* reader.onerror: resetUploadUI
onerror ==
    /\ page = "upload.html"
    /\ reader # NoFile
    /\ reader' = NoFile
    /\ UNCHANGED <<page, loaded, arrival, sessionStorage, shown>>
    /\ UNCHANGED beyondClient

\* DOMContentLoaded on results.html: displayResults and checkAuth, each of
\* which may set window.location.href; the listeners' order is the order of
\* the page's script tags, so with two redirects either target can be last
LoadResults ==
    /\ page = "results.html"
    /\ ~loaded
    /\ LET storage == VersionCheck(sessionStorage)
           targets == (IF Has(storage, "results") THEN {} ELSE {"upload.html"})
                         \cup (IF LoggedIn(storage) THEN {} ELSE {"index.html"})
       IN  /\ sessionStorage' = storage
           /\ IF targets # {}
              THEN /\ \E target \in targets :
                         /\ page' = target
                         /\ arrival' = IF target = "upload.html" THEN "displayResults"
                                       ELSE "checkAuth"
                   /\ loaded' = FALSE
                   /\ reader' = NoFile
                   /\ shown' = NotShown
              ELSE /\ shown' = Rendered(storage["results"])
                   /\ loaded' = TRUE
                   /\ UNCHANGED <<page, arrival, reader>>
    /\ UNCHANGED beyondClient

\* logout(), from the header of upload.html and results.html
logout ==
    /\ page \in {"upload.html", "results.html"}
    /\ loaded
    /\ sessionStorage' = clear
    /\ Navigate("index.html", "logout")
    /\ UNCHANGED beyondClient

\* the user opens a page by its address, or reloads the one shown
Visit ==
    /\ loaded
    /\ \E target \in {"index.html", "upload.html", "results.html"} :
          Navigate(target, "address")
    /\ UNCHANGED sessionStorage
    /\ UNCHANGED beyondClient

ClientNext ==
    \/ LoadIndex
    \/ handleLogin
    \/ LoadUpload
    \/ processFile
    \/ onload
    \/ onerror
    \/ LoadResults
    \/ logout
    \/ Visit

ClientSpec == Init /\ [][ClientNext]_vars

\* The steps a request in progress takes: the runtime runs a handler that
\* can go on, and the database answers the insert.  The client need not
\* send a request and the external service need not answer, so Request,
\* MalformedBody and CollaboratorReplies are under no fairness condition.
HandlerStep ==
    \/ RejectMissing
    \/ Parse
    \/ CallCollaborator
    \/ RejectNoEntries
    \/ Analyze
    \/ Save
    \/ Respond
    \/ Return

LiveSpec == Init /\ [][Next]_vars /\ WF_vars(HandlerStep)

(***************************************************************************)
(* Properties.                                                             *)
(***************************************************************************)
\* analyzeLog has returned and `anomalies' holds its result
Analysed == pc \in {"analyzed", "saved"} \/ (pc = "done" /\ response.success)

OfType(type) == {i \in 1..Len(anomalies) : anomalies[i].type = type}

Sources == {entries[i].ip : i \in 1..Len(entries)}

\* the number of events of a source with statusCode >= 400
FailuresOf(ip) ==
    Cardinality({i \in 1..Len(entries) : entries[i].ip = ip /\ entries[i].statusCode >= 400})

RequestsOf(ip) == Cardinality({i \in 1..Len(entries) : entries[i].ip = ip})

EventsInHour(h) == Cardinality({i \in 1..Len(entries) : entries[i].hour = h})

\* a list is in reporting order: no warning before a critical, and confidence
\* non-increasing among anomalies of one severity
InReportingOrder(list) ==
    \A i, j \in 1..Len(list) :
        i < j =>
            /\ ~(list[i].severity = "warning" /\ list[j].severity = "critical")
            /\ (list[i].severity = list[j].severity
                    => list[i].confidence >= list[j].confidence)

\* C1: the list analyzeLog returns is ordered: no 'warning' anomaly before a
\* 'critical' one, and within one severity the confidence never increases.
C1_SortedBySeverityThenConfidence == Analysed => InReportingOrder(anomalies)

\* C1 witness: the rules emitted a warning before a critical anomaly (the
\* concatenation of the rule outputs was out of order) and the sort acted.
C1_Witness ==
    /\ pc = "analyzed"
    /\ \E i, j \in 1..Len(anomalies) :
          anomalies[i].severity = "critical" /\ anomalies[j].severity = "warning"
    /\ ~InReportingOrder(RuleOutputs(entries))

\* C2: every anomaly of every rule has a confidence in 0..95.
C2_ConfidenceWithinBounds ==
    Analysed => \A i \in 1..Len(anomalies) : anomalies[i].confidence \in 0..95

\* C2 witness: a source with so many failures that 60 + 5 x count exceeds 95,
\* reported with the capped confidence.
C2_Witness ==
    /\ Analysed
    /\ \E i \in OfType("Multiple Failed Attempts") :
          60 + 5 * anomalies[i].count > 95 /\ anomalies[i].confidence = 95

\* the events the text of the request parses to (with the answer of the
\* external service, when the text went there)
ParsedEvents ==
    IF NeedsCollaborator(fileContent, apiKey)
    THEN parseWithChatGPT(fileContent, reply)
    ELSE parseLogUniversal(fileContent, apiKey)

PatternsMatchedBy(ip) ==
    {k \in 1..Len(suspiciousPatterns) :
        \E i \in 1..Len(entries) :
            entries[i].ip = ip /\ PatternTest(suspiciousPatterns[k], entries[i].url)}

\* the denylist as the project guide states it
Denylist ==
    << <<"/","a","d","m","i","n">>, <<"/","c","o","n","f","i","g">>,
       <<"/",".","e","n","v">>, <<"/","w","p","-","a","d","m","i","n">>,
       <<"/","p","h","p","m","y","a","d","m","i","n">>, <<"/",".","g","i","t">>,
       <<"/","b","a","c","k","u","p">>, <<"/","d","a","t","a","b","a","s","e">> >>

OnDenylist(url) == \E d \in 1..Len(Denylist) : ContainsCI(url, Denylist[d])

\* C4: every Rule 4 anomaly has severity 'critical' (a single request to a
\* single denylisted resource included); Rule 4 never emits a 'warning'.
C4_Rule4AlwaysCritical ==
    Analysed =>
        \A i \in OfType("Suspicious URL Access") : anomalies[i].severity = "critical"

\* C5: Rule 4 emits exactly one anomaly per (source, matched pattern) pair: a
\* source whose requests match k patterns has k Rule 4 anomalies.
C5_OneAnomalyPerSourceAndPattern ==
    Analysed =>
        \A ip \in Sources :
            Cardinality({i \in OfType("Suspicious URL Access") : anomalies[i].ip = ip})
                = Cardinality(PatternsMatchedBy(ip))

\* C6: for every event whose resource holds a denylist entry as a substring
\* at any position (without case), Rule 4 reports the event's source.
C6_EveryDenylistedResourceFlagged ==
    Analysed =>
        \A i \in 1..Len(entries) :
            OnDenylist(entries[i].url)
                => \E j \in OfType("Suspicious URL Access") :
                      anomalies[j].ip = entries[i].ip

\* C7: a Rule 1 anomaly is 'critical' exactly when the source's multiplier
\* (count / average requests per source) is strictly greater than 10.
C7_Rule1CriticalAboveTenfold ==
    Analysed =>
        \A i \in OfType("High Request Volume") :
            (anomalies[i].severity = "critical")
                <=> (anomalies[i].count * Cardinality(Sources) > 10 * Len(entries))

C9_Rule2CriticalAboveTen ==
    Analysed =>
        \A i \in OfType("Multiple Failed Attempts") :
            (anomalies[i].severity = "critical") <=> (anomalies[i].count > 10)

C11_Rule3FixedConfidence ==
    Analysed =>
        \A i \in OfType("Unusual Time Activity") :
            /\ anomalies[i].confidence = 70
            /\ (anomalies[i].severity = "critical") <=> (anomalies[i].count >= 100)

\* the events whose size is strictly above 10,000,000 bytes
LargeEvents == {i \in 1..Len(entries) : entries[i].bytes > 10000000}

\* C12: Rule 5 emits one anomaly per event of more than 10,000,000 bytes and
\* none for any other event: as many anomalies as such events, in total and
\* for each source (an event of exactly 10,000,000 bytes gives none).
C12_Rule5OnePerLargeEvent ==
    Analysed =>
        /\ Cardinality(OfType("Large Data Transfer")) = Cardinality(LargeEvents)
        /\ \A ip \in Sources :
              Cardinality({i \in OfType("Large Data Transfer") : anomalies[i].ip = ip})
                = Cardinality({i \in LargeEvents : entries[i].ip = ip})

\* C12 witness: one source with two events above the threshold and one event
\* of exactly 10,000,000 bytes, reported exactly twice by Rule 5.
C12_Witness ==
    /\ Analysed
    /\ \E ip \in Sources :
          /\ Cardinality({i \in LargeEvents : entries[i].ip = ip}) = 2
          /\ \E i \in 1..Len(entries) : entries[i].ip = ip /\ entries[i].bytes = 10000000
          /\ Cardinality({i \in OfType("Large Data Transfer") : anomalies[i].ip = ip}) = 2

\* the instants of a source's events in ascending order
SortedDatesOf(ip) ==
    LET mine == SelectSeq(entries, LAMBDA e : e.ip = ip)
    IN  SortSeq([k \in 1..Len(mine) |-> mine[k].date], LAMBDA a, b : a < b)

\* the starts of the runs of 10 consecutive instants that span at most 10 s
RapidRuns(ip) ==
    LET d == SortedDatesOf(ip)
    IN  {k \in 1..(Len(d) - 9) : d[k + 9] - d[k] <= 10000}

\* the span in milliseconds of the earliest such run
FirstRunSpan(ip) ==
    LET d == SortedDatesOf(ip)
        k == CHOOSE r \in RapidRuns(ip) : \A q \in RapidRuns(ip) : r <= q
    IN  d[k + 9] - d[k]

RapidAnomaliesOf(ip) ==
    {i \in OfType("Rapid Sequential Requests") : anomalies[i].ip = ip}

\* C13: Rule 6 reports a source at most once however many windows qualify,
\* and the reported seconds are the span of the earliest qualifying window
\* in time order, never more than 10 (seconds are held in tenths).
C13_Rule6FirstWindowOnly ==
    Analysed =>
        \A ip \in Sources :
            /\ Cardinality(RapidAnomaliesOf(ip)) <= 1
            /\ \A i \in RapidAnomaliesOf(ip) :
                  /\ RapidRuns(ip) # {}
                  /\ anomalies[i].seconds * 100 = FirstRunSpan(ip)
                  /\ anomalies[i].seconds <= 100

\* C13 witness: a source with several qualifying windows of different spans,
\* reported once with the span of the earliest one.
C13_Witness ==
    /\ Analysed
    /\ \E ip \in Sources :
          /\ \E k \in RapidRuns(ip) :
                SortedDatesOf(ip)[k + 9] - SortedDatesOf(ip)[k] # FirstRunSpan(ip)
          /\ Cardinality(RapidAnomaliesOf(ip)) = 1
          /\ \A i \in RapidAnomaliesOf(ip) : anomalies[i].seconds * 100 = FirstRunSpan(ip)

RuleRank(type) ==
    CASE type = "High Request Volume" -> 1
      [] type = "Multiple Failed Attempts" -> 2
      [] type = "Unusual Time Activity" -> 3
      [] type = "Suspicious URL Access" -> 4
      [] type = "Large Data Transfer" -> 5
      [] type = "Rapid Sequential Requests" -> 6

\* the anomalies of a list with a given severity and confidence, in order
TieClass(list, severity, confidence) ==
    SelectSeq(list, LAMBDA a : a.severity = severity /\ a.confidence = confidence)

\* C15: anomalies with the same severity and the same confidence keep the
\* order of the concatenation: rules 1 to 6, and within a rule the order in
\* which the rule emitted them.
C15_TiesKeepConcatenationOrder ==
    Analysed =>
        /\ \A i, j \in 1..Len(anomalies) :
              (/\ i < j
               /\ anomalies[i].severity = anomalies[j].severity
               /\ anomalies[i].confidence = anomalies[j].confidence)
                  => RuleRank(anomalies[i].type) <= RuleRank(anomalies[j].type)
        /\ \A i \in 1..Len(anomalies) :
              TieClass(anomalies, anomalies[i].severity, anomalies[i].confidence)
                = TieClass(RuleOutputs(entries), anomalies[i].severity,
                           anomalies[i].confidence)

\* C15 witness: the returned list holds two anomalies of different rules
\* with equal severity and equal confidence.
C15_Witness ==
    /\ Analysed
    /\ \E i, j \in 1..Len(anomalies) :
          /\ i < j
          /\ anomalies[i].severity = anomalies[j].severity
          /\ anomalies[i].confidence = anomalies[j].confidence
          /\ RuleRank(anomalies[i].type) < RuleRank(anomalies[j].type)

\* parseLogUniversal has returned and `entries' holds its result
Parsed == pc \in {"parsed", "analyzed", "saved"}

\* the answer is one the external call fails with, or its content is not an
\* array of records
AnswerFailed(rep) ==
    \/ rep.kind # "array"
    \/ \E i \in 1..Len(rep.items) : rep.items[i].kind # "record"

\* C16: for a text of unknown format, with no apiKey or with an answer that
\* fails in any way (network, status, unparseable, not an array of records),
\* the events returned are those of parseApacheNginx on the full text.
C16_UnknownFallsBackToApache ==
    (Parsed /\ format = "unknown" /\ (~apiKey \/ AnswerFailed(reply)))
        => entries = parseApacheNginx(fileContent)

\* C17: the external call is bounded by a timeout: a request that waits for
\* the answer always gets on to the parsed entries, whether or not the
\* service ever answers.
C17_CollaboratorCallTimesOut == (pc = "calling") ~> (pc = "parsed")

\* parseApacheNginx made the entries: the format is apache, or it is unknown
\* and there is no apiKey or the external call threw
ApacheExtracted ==
    /\ Parsed
    /\ \/ format = "apache"
       \/ format = "unknown" /\ (~apiKey \/ ReplyThrows(reply))

\* the positions of the lines that match the combined-log pattern
WellFormed == {i \in 1..Len(fileContent) : MatchesApache(fileContent[i])}

\* C18: parseApacheNginx returns one event per well-formed line, in the
\* order of the text, each with the fields and the position of its own line
\* whatever blank or malformed lines lie in between; the line numbers are
\* strictly increasing.
C18_ApacheLinesIndependent ==
    ApacheExtracted =>
        /\ Len(entries) = Cardinality(WellFormed)
        /\ \A k \in 1..Len(entries) :
              /\ entries[k].lineNumber \in WellFormed
              /\ entries[k].ip = fileContent[entries[k].lineNumber].ip
              /\ entries[k].url = fileContent[entries[k].lineNumber].url
              /\ entries[k].timestamp = fileContent[entries[k].lineNumber].ts
        /\ \A k \in 1..(Len(entries) - 1) :
              entries[k].lineNumber < entries[k + 1].lineNumber

\* C18 witness: a malformed line, not blank, between two well-formed lines,
\* and the two events with the line numbers of their lines.
C18_Witness ==
    /\ ApacheExtracted
    /\ Len(entries) = 2
    /\ \E i \in 1..Len(fileContent) :
          /\ ~IsBlank(fileContent[i]) /\ ~MatchesApache(fileContent[i])
          /\ entries[1].lineNumber < i
          /\ i < entries[2].lineNumber

\* C19: every event of every extractor has a valid instant and an hour of
\* day in 0..23, and the event of an Apache line whose timestamp cannot be
\* parsed (no time of day, unknown month) has the current time as instant.
C19_EveryEventHasValidInstant ==
    Parsed =>
        /\ \A k \in 1..Len(entries) :
              entries[k].date # NaN /\ entries[k].hour \in 0..23
        /\ ApacheExtracted =>
              \A k \in 1..Len(entries) :
                  ("hh" \notin DOMAIN entries[k].timestamp
                      \/ entries[k].timestamp.mon \notin DOMAIN Months)
                          => entries[k].date = getTime(now)

\* the first five non-blank lines of the text of the request
Sample == Slice0(NonBlankLines(fileContent), 5)

\* C20: detectLogFormat returns one of the six tags, the tag of the first
\* check that matches in the order json, w3c, apache, syslog, iis, else
\* unknown: json when the sample holds {" even if its first line matches the
\* Apache pattern, w3c when it holds a #Fields: or #Software: marker even if
\* it begins with a date and a time, unknown when no line is non-blank.
C20_DetectorFirstMatchWins ==
    LET tag == detectLogFormat(fileContent)
        some(Test(_)) == \E i \in 1..Len(Sample) : Test(Sample[i])
        json == Len(Sample) > 0 /\ (StartsWithBrace(Sample[1]) \/ some(IncludesBraceQuote))
        w3c == some(IncludesFields) \/ some(IncludesSoftware)
        apache == Len(Sample) > 0 /\ MatchesApacheSample(Sample[1])
        syslog == Len(Sample) > 0 /\ MatchesSyslog(Sample[1])
        iis == Len(Sample) > 0 /\ (some(IncludesW3SVC) \/ StartsWithDateTime(Sample[1]))
    IN  /\ tag \in {"json", "w3c", "apache", "syslog", "iis", "unknown"}
        /\ format # "none" => format = tag
        /\ Len(Sample) = 0 => tag = "unknown"
        /\ json => tag = "json"
        /\ (w3c /\ ~json) => tag = "w3c"
        /\ (apache /\ ~json /\ ~w3c) => tag = "apache"
        /\ (syslog /\ ~json /\ ~w3c /\ ~apache) => tag = "syslog"
        /\ (iis /\ ~json /\ ~w3c /\ ~apache /\ ~syslog) => tag = "iis"
        /\ (~json /\ ~w3c /\ ~apache /\ ~syslog /\ ~iis) => tag = "unknown"

\* C20 witness: a text whose first line matches the Apache pattern and
\* whose sample holds {" was classified json and parsed as JSON lines.
C20_Witness ==
    /\ Parsed
    /\ format = "json"
    /\ MatchesApacheSample(Sample[1])
    /\ Len(entries) >= 1
    /\ entries = parseJsonLogs(fileContent)

\* the text was read by parseW3C and `entries' holds the result
ParsedAsW3C == Parsed /\ format \in {"w3c", "iis"}

\* the 1-based positions of the lines that are neither blank nor start
\* with '#'
DataPositions ==
    {n \in 1..Len(fileContent) :
        fileContent[n].kind \notin {"fields", "software", "comment", "blank"}}

\* the column names in force at position n: those of the nearest '#Fields:'
\* line before it
Governing(n) ==
    IF \A j \in 1..(n - 1) : fileContent[j].kind # "fields" THEN <<>>
    ELSE LET j == CHOOSE h \in 1..(n - 1) :
                     /\ fileContent[h].kind = "fields"
                     /\ \A g \in (h + 1)..(n - 1) : fileContent[g].kind # "fields"
         IN  fileContent[j].names

\* the token of line n in the column called name; the alternative when the
\* column is not in force or the line ends before it
Cell(n, name, alternative) ==
    LET names == Governing(n)
        tokens == fileContent[n].values
    IN  IF \E p \in 1..Len(names) : names[p] = name /\ p <= Len(tokens)
        THEN tokens[CHOOSE p \in 1..Len(names) : names[p] = name]
        ELSE alternative

\* C23: every event of parseW3C comes from a line that is neither blank
\* nor starts with '#', and its fields are the tokens of that line under
\* the column ordering of the nearest '#Fields:' line before it; a column
\* the line ends before gets the default: sourceId 'unknown' (after c-ip
\* and s-ip), resource '/', status 200, size 0.
C23_NearestFieldsLineGoverns ==
    ParsedAsW3C =>
        \A k \in 1..Len(entries) :
            LET n == entries[k].lineNumber
            IN  /\ n \in DataPositions
                /\ entries[k].ip = Cell(n, "c-ip", Cell(n, "s-ip", "unknown"))
                /\ entries[k].url = Chars(Cell(n, "cs-uri-stem", "/"))
                /\ entries[k].statusCode = ParseInt(Cell(n, "sc-status", "200"))
                /\ entries[k].bytes = ParseInt(Cell(n, "sc-bytes", "0"))

\* a short line under one ordering, then a full line under another
C23_Witness ==
    /\ ParsedAsW3C
    /\ Len(entries) = 2
    /\ Governing(entries[1].lineNumber) # <<>>
    /\ Governing(entries[2].lineNumber) # Governing(entries[1].lineNumber)
    /\ Len(fileContent[entries[1].lineNumber].values)
          < Len(Governing(entries[1].lineNumber))
    /\ entries[1].ip = "unknown" /\ entries[1].url = <<"/">>
    /\ entries[1].statusCode = 200 /\ entries[1].bytes = 0
    /\ entries[2].statusCode = 2048 /\ entries[2].bytes = 404

\* the field of event k that the answer's item k should give: the item's
\* own value, the default when the item has no such field
Defaulted(k, name, default) ==
    IF name \in DOMAIN reply.items[k].rec THEN reply.items[k].rec[name] ELSE default

\* C24: when the events are the mapped items of an answer, every record of
\* the answer that lacks a field gets the default of the JSON-lines
\* extractor for it: 'unknown', '/', 200, 0.
C24_AnswerRecordsDefaulted ==
    (Parsed /\ Answered) =>
        \A k \in 1..Len(reply.items) :
            reply.items[k].kind = "record" =>
                /\ entries[k].ip = Defaulted(k, "ip", "unknown")
                /\ entries[k].url = Defaulted(k, "url", <<"/">>)
                /\ entries[k].statusCode = Defaulted(k, "statusCode", 200)
                /\ entries[k].bytes = Defaulted(k, "bytes", 0)

\* C25: when the external service answers with one record for each line
\* of the sample, the events returned for the text cover every non-blank
\* line of the text, also the lines after the first 20.
C25_AnswerAppliedToWholeText ==
    (Parsed /\ reply = RecordPerLine(SampleSent(fileContent))) =>
        /\ Len(entries) = Len(NonBlankLines(fileContent))
        /\ \A n \in 1..Len(NonBlankLines(fileContent)) :
              \E k \in 1..Len(entries) : entries[k].lineNumber = n

(***************************************************************************)
(* Rule 1 and the number of sources.                                       *)
(***************************************************************************)
\* C27: Rule 1 reports no source when the events come from fewer than 6
\* distinct sources, however the requests are spread over them; nor when
\* every source has the same number of requests.
C27_Rule1NeedsSixSources ==
    Analysed =>
        /\ Cardinality(Sources) < 6 => OfType("High Request Volume") = {}
        /\ (\A a \in Sources : \A b \in Sources : RequestsOf(a) = RequestsOf(b))
              => OfType("High Request Volume") = {}

\* five sources, one of them with a hundred requests and the others with one
C27_Witness ==
    /\ Analysed
    /\ Cardinality(Sources) = 5
    /\ \E a \in Sources :
          /\ RequestsOf(a) = 100
          /\ \A b \in Sources \ {a} : RequestsOf(b) = 1
    /\ OfType("High Request Volume") = {}

C30_OneEventPerDataLine ==
    /\ ParsedAsW3C =>
          /\ Len(entries) = Cardinality(DataPositions)
          /\ {entries[k].lineNumber : k \in 1..Len(entries)} = DataPositions
    /\ (/\ pc = "done"
        /\ response.status = 400
        /\ ~MissingFields
        /\ format \in {"w3c", "iis"}) => DataPositions = {}

\* a data line above the first '#Fields:' line, a comment line between two
\* data lines below it, and an event for each of the three data lines
C30_Witness ==
    /\ ParsedAsW3C
    /\ format = "w3c"
    /\ Len(entries) = 3
    /\ entries[1].lineNumber = 1
    /\ Governing(1) = <<>>
    /\ \E n \in 1..Len(fileContent) : fileContent[n].kind = "comment"

(***************************************************************************)
(* The legacy browser client (ClientSpec).                                 *)
(***************************************************************************)
\* processFile has stored an analysis and navigated to the results page,
\* whose listeners have not run yet
ArrivedFromProcessFile ==
    /\ page = "results.html"
    /\ ~loaded
    /\ arrival = "processFile"
    /\ Has(sessionStorage, "results")
    /\ Len(sessionStorage["results"].parsed) > 0

\* C26: whenever processFile has stored a non-empty analysis under
\* 'results' and navigated to the results page, the page's load renders
\* that analysis, whatever else the session storage holds.
C26_StoredAnalysisRendered ==
    [][ArrivedFromProcessFile =>
          shown' = Rendered(sessionStorage["results"])]_vars

(***************************************************************************)
(* analyzeLog with its six rules evaluated in any order (RuleSpec).        *)
(***************************************************************************)
\* every rule evaluated so far returned what it returns on the list as it
\* was at the call, with the statistics of that list
RuleOutputsUnaffected ==
    LET atCall == buildStats(listAtCall)
    IN  \A i \in 1..Len(order) :
            ruleOut[order[i]] =
                CASE order[i] = 1 -> detectHighRequestVolume(atCall, listAtCall)
                  [] order[i] = 2 -> detectFailedAttempts(atCall, listAtCall)
                  [] order[i] = 3 -> detectUnusualTiming(atCall, listAtCall)
                  [] order[i] = 4 -> detectSuspiciousUrls(listAtCall)
                  [] order[i] = 5 -> detectLargeTransfers(listAtCall)
                  [] order[i] = 6 -> detectRapidRequests(listAtCall)

\* C22: in whatever order the six rules are evaluated, each returns the
\* output it returns on the untouched list, the list analyzeLog returns is
\* the one the sequential order 1..6 gives, and the caller's event list
\* holds the same events in the same order as before the call.
C22_RulesOnlyRead ==
    /\ RuleOutputsUnaffected
    /\ callerList = listAtCall
    /\ apc = "returned" => ranked = analyzeLog(listAtCall)

\* a call on a list that is not in time order, with Rule 6 evaluated first
\* and Rule 5 after it, both of them firing
C22_Witness ==
    /\ apc = "returned"
    /\ Len(order) = 6
    /\ order[1] = 6
    /\ order # <<6, 1, 2, 3, 4, 5>>
    /\ SortByDate(listAtCall) # listAtCall
    /\ Len(ruleOut[5]) >= 2
    /\ Len(ruleOut[6]) >= 1
    /\ C22_RulesOnlyRead

(***************************************************************************)
(* Two runs on one text (RepeatSpec).                                      *)
(***************************************************************************)
\* the line carries a timestamp its extractor reads in full
WellFormedTimestamp(line) ==
    CASE line.kind \in {"apache", "apachebrace"} ->
            "hh" \in DOMAIN line.ts /\ line.ts.mon \in DOMAIN Months
      [] line.kind = "json" ->
            FirstOf(line.obj, <<"timestamp", "time", "datetime", "@timestamp">>,
                    [form |-> "now"]).form = "datetime"
      [] OTHER -> TRUE

\* a successful run on the text of the run on record, every timestamp of
\* which is well-formed
SameTextAgain ==
    /\ prior # NoRun
    /\ pc = "done"
    /\ response.success
    /\ prior.text = fileContent
    /\ \A i \in 1..Len(fileContent) : WellFormedTimestamp(fileContent[i])

SameResults ==
    /\ response.entries = prior.entries
    /\ response.anomalies = prior.anomalies

\* C21 (as stated): a second run on the same text, whose timestamps are all
\* well-formed, returns the event list and the anomaly list of the first
\* run, whatever was analysed in between.
C21_RepeatedRunIdentical == SameTextAgain => SameResults

\* C21 (amended): the same, for two runs neither of which takes its events
\* from an answer of the external collaborator and which, when the text is
\* syslog, read the same calendar year from the clock.
C21_RepeatedRunIdenticalWithoutAnswer ==
    (/\ SameTextAgain
     /\ ~prior.answered /\ ~Answered
     /\ (format = "syslog" => getFullYear(prior.now) = getFullYear(now)))
        => SameResults

\* the second run of a text that raises anomalies, at another reading of
\* the clock and after a run on another text
C21_Witness ==
    /\ SameTextAgain
    /\ ~prior.answered /\ ~Answered
    /\ prior.between
    /\ prior.now # now
    /\ getFullYear(prior.now) # getFullYear(now)
    /\ Len(response.anomalies) > 0
    /\ SameResults

====
